---- MODULE Spec2Model ----
(***************************************************************************)
(* A model of the pyshop helpers: the sparkline renderer                   *)
(* (pyshop/sparkline.py), running_threads (pyshop/utils.py), and the       *)
(* memoized and echo decorators (pyshop/decorators.py).                    *)
(*                                                                         *)
(* Each helper has a specification of its own (SpecSpark, SpecThreads,     *)
(* SpecMemo, SpecEcho); the variables of the other helpers stay at their   *)
(* initial values.                                                         *)
(*                                                                         *)
(* Numbers.  Python floats are modelled by integers, and the quotient      *)
(* (x - minimum) * (7.0 / data_range) by the exact rational                *)
(* 7 * (x - minimum) / data_range.  For integer samples with a data range  *)
(* below 50 the IEEE double computation of the source yields exactly this  *)
(* rational's rounding under both rounding rules (checked exhaustively     *)
(* against the interpreter); the bounds below keep the range under 20.     *)
(* Infinities, NaN and magnitudes near the overflow threshold are outside  *)
(* the model.                                                              *)
(***************************************************************************)
EXTENDS Integers, Sequences, FiniteSets, TLC

\* ------------------------------------------------------------------ bounds
\* Longest series drawn as input.
MaxLen == 3
\* Samples are drawn from -MaxSample .. MaxSample.
MaxSample == 2
\* Explicit bounds are drawn from {-MaxBound, 0, MaxBound}.
MaxBound == 7
\* Worker threads that may be started.
MaxWorkers == 3
\* Distinct hashable argument tuples a memoized function is called with.
MaxArgs == 2
\* Distinct values the wrapped function may return.
MaxValues == 2
\* Calls of a memoized function in one run.
MaxMemoCalls == 5
\* Deepest nesting of echo-wrapped calls.
MaxNest == 3
\* Calls of echo-wrapped functions in one run.
MaxEchoCalls == 5

\* --------------------------------------------------------------- variables
VARIABLES
    \* sparkify: the arguments of the call
    series_in, minimum_in, maximum_in,
    \* sparkify: the interpreter running the code ("py2" or "py3")
    host,
    \* sparkify: the position in the function body
    sp_pc,
    \* sparkify: the locals after their rebinding (lines 22, 24-34)
    series, minimum, maximum,
    \* sparkify: what the call produced: the returned string or the exception
    sp_result,
    \* running_threads: the threads threading.enumerate() would return now,
    \* and the workers that have terminated
    alive, finished,
    \* running_threads: the position in the function body, its locals
    \* main_thread and threads, the list enumerate() returned and the index
    \* of the for loop in it
    rt_pc, main_thread, threads, rt_enum, rt_i,
    \* running_threads: the alive threads at the moment enumerate() was called
    rt_alive,
    \* memoized: self.cache
    cache,
    \* memoized: per argument tuple, how often self.func returned normally and
    \* the value it returned first; the number of calls so far
    mem_evals, mem_first, mem_calls,
    \* memoized: the last call: its arguments, whether they were cached,
    \* whether self.func was invoked, how the call ended, the value returned
    \* and the cache before the call
    mem_last,
    \* echo: echo.depth
    depth,
    \* echo: the wrapped calls in progress, outermost first; each with its
    \* function and the depth its "Entering" line was written with
    stack,
    \* echo: the depths of the "Entering" and the "Exiting" line of the call
    \* that ended last, and how it ended
    last_exit,
    \* echo: a call has ended with an exception that is no Exception
    escaped,
    \* echo: the number of calls so far
    echo_calls

sparkVars == <<series_in, minimum_in, maximum_in, host, sp_pc, series, minimum,
               maximum, sp_result>>

threadVars == <<alive, finished, rt_pc, main_thread, threads, rt_enum, rt_i, rt_alive>>

memoVars == <<cache, mem_evals, mem_first, mem_calls, mem_last>>

echoVars == <<depth, stack, last_exit, escaped, echo_calls>>

vars == <<sparkVars, threadVars, memoVars, echoVars>>

\* ------------------------------------------------------------ Python values
\* A Python value as float() sees it: a number, a string that is not the
\* text of a number, or None.
Num(v) == [kind |-> "num", val |-> v]
BadStr == [kind |-> "str", val |-> 0]
None == [kind |-> "none", val |-> 0]

\* float(e) returns for a number.
CanFloat(e) == e.kind = "num"

\* The exception float(e) raises otherwise: ValueError for a string that does
\* not parse, TypeError for an object that is neither a string nor a number.
FloatError(e) == IF e.kind = "str" THEN "ValueError" ELSE "TypeError"

\* spark_chars, the eight block glyphs by code point, shortest first.
spark_chars == <<"U2581", "U2582", "U2583", "U2584", "U2585", "U2586", "U2587", "U2588">>

Range(s) == {s[i] : i \in 1..Len(s)}
SeqMin(s) == CHOOSE m \in Range(s) : \A x \in Range(s) : m <= x
SeqMax(s) == CHOOSE m \in Range(s) : \A x \in Range(s) : m >= x
Min2(a, b) == IF a <= b THEN a ELSE b
Max2(a, b) == IF a >= b THEN a ELSE b

\* The result of a call: status "ok" with the returned string (a sequence of
\* glyphs), or the name of the exception raised, with no string.
Returned(out) == [status |-> "ok", out |-> out]
Raised(exc) == [status |-> exc, out |-> <<>>]
NoResult == [status |-> "running", out |-> <<>>]

\* ---------------------------------------------------------------- sparkify
\* The inputs drawn for a call.
Samples == { Num(v) : v \in -MaxSample..MaxSample }
Elems == Samples \cup {BadStr, None}
SeriesArgs ==
    {[iterable |-> FALSE, items |-> <<>>]} \cup
    {[iterable |-> TRUE, items |-> s] : s \in UNION {[1..n -> Elems] : n \in 0..MaxLen}}
BoundArgs == {None, Num(-MaxBound), Num(0), Num(MaxBound)}
Hosts == {"py2", "py3"}

\* Lines 25-28: the minimum used, given an explicit one.
EffectiveMinUnclamped(series_min, explicit) == explicit
EffectiveMin(series_min, explicit) == Min2(series_min, explicit)

\* Lines 31-34: the maximum used, given an explicit one.
EffectiveMax(series_max, explicit) == Max2(series_max, explicit)

\* Line 37: the test for a flat series.
IsFlatNever(data_range) == FALSE
IsFlat(data_range) == data_range = 0

\* Line 41: coefficient = (len(spark_chars) - 1.0) / data_range; this is its
\* numerator, data_range its denominator.
CoefficientNumFull == Len(spark_chars)
CoefficientNum == Len(spark_chars) - 1

\* Line 45: x - minimum.
OffsetUnshifted(x, mn) == x
Offset(x, mn) == x - mn

\* round(num / den) for den > 0, ties to the even neighbour (Python 3).
RoundHalfEven(num, den) ==
    LET q == num \div den
        r2 == 2 * (num % den)
    IN  IF r2 < den THEN q
        ELSE IF r2 > den THEN q + 1
        ELSE IF q % 2 = 0 THEN q ELSE q + 1

\* round(num / den) for den > 0, ties away from zero (Python 2).
RoundHalfAway(num, den) ==
    LET q == num \div den
        r2 == 2 * (num % den)
    IN  IF r2 < den THEN q
        ELSE IF r2 > den THEN q + 1
        ELSE IF num >= 0 THEN q + 1 ELSE q

\* Line 45: the built-in round of the interpreter h, on num / den.
roundTruncating(h, num, den) == num \div den
round(h, num, den) ==
    IF h = "py3" THEN RoundHalfEven(num, den) ELSE RoundHalfAway(num, den)

\* Line 45: int(round((x - minimum) * coefficient)).
GlyphIndex(x, mn, data_range, h) ==
    round(h, Offset(x, mn) * CoefficientNum, data_range)

\* Line 44: spark_chars[idx] is defined (Python counts a negative idx from
\* the end).
InRange(idx) == -Len(spark_chars) <= idx /\ idx < Len(spark_chars)
CharAt(idx) ==
    IF idx >= 0 THEN spark_chars[idx + 1] ELSE spark_chars[Len(spark_chars) + idx + 1]

\* The position of glyph g in spark_chars, counted from 0.
HeightOf(g) == CHOOSE k \in 0..(Len(spark_chars) - 1) : spark_chars[k + 1] = g

\* Line 22: series = [ float(i) for i in series ].  The first element in
\* order that float() rejects decides the exception.
ConvertOut(arg) ==
    IF ~arg.iterable
    THEN [exc |-> "TypeError", series |-> <<>>]
    ELSE LET items == arg.items
             bad == {i \in 1..Len(items) : ~CanFloat(items[i])}
         IN  IF bad # {}
             THEN [exc |-> FloatError(items[CHOOSE i \in bad : \A j \in bad : i <= j]),
                   series |-> <<>>]
             ELSE [exc |-> "", series |-> [i \in 1..Len(items) |-> items[i].val]]

\* Lines 24-34: the effective minimum and maximum of the converted series s.
\* min() and max() of an empty list raise ValueError.
BoundsOut(s, mn_arg, mx_arg) ==
    IF s = <<>>
    THEN [exc |-> "ValueError", minimum |-> 0, maximum |-> 0]
    ELSE IF mn_arg # None /\ ~CanFloat(mn_arg)
    THEN [exc |-> FloatError(mn_arg), minimum |-> 0, maximum |-> 0]
    ELSE IF mx_arg # None /\ ~CanFloat(mx_arg)
    THEN [exc |-> FloatError(mx_arg), minimum |-> 0, maximum |-> 0]
    ELSE [exc |-> "",
          minimum |-> IF mn_arg # None
                      THEN EffectiveMin(SeqMin(s), mn_arg.val)
                      ELSE SeqMin(s),
          maximum |-> IF mx_arg # None
                      THEN EffectiveMax(SeqMax(s), mx_arg.val)
                      ELSE SeqMax(s)]

\* Lines 36-47: the baseline for a flat series, else one glyph per sample.
RenderOut(s, mn, mx, h) ==
    LET data_range == mx - mn
        idx(i) == GlyphIndex(s[i], mn, data_range, h)
    IN  IF IsFlat(data_range)
        THEN Returned([i \in 1..Len(s) |-> spark_chars[1]])
        ELSE IF data_range = 0
        THEN Raised("ZeroDivisionError")
        ELSE IF \E i \in 1..Len(s) : ~InRange(idx(i))
        THEN Raised("IndexError")
        ELSE Returned([i \in 1..Len(s) |-> CharAt(idx(i))])

\* sparkify(series, minimum, maximum) as one call under interpreter h.
sparkify(arg, mn_arg, mx_arg, h) ==
    LET c == ConvertOut(arg)
        b == BoundsOut(c.series, mn_arg, mx_arg)
    IN  IF c.exc # "" THEN Raised(c.exc)
        ELSE IF b.exc # "" THEN Raised(b.exc)
        ELSE RenderOut(c.series, b.minimum, b.maximum, h)

\* The call, statement by statement.
Convert ==
    /\ sp_pc = "line22"
    /\ LET c == ConvertOut(series_in)
       IN  IF c.exc # ""
           THEN /\ sp_result' = Raised(c.exc)
                /\ sp_pc' = "done"
                /\ UNCHANGED series
           ELSE /\ series' = c.series
                /\ sp_pc' = "line24"
                /\ UNCHANGED sp_result
    /\ UNCHANGED <<series_in, minimum_in, maximum_in, host, minimum, maximum>>
    /\ UNCHANGED <<threadVars, memoVars, echoVars>>

Bounds ==
    /\ sp_pc = "line24"
    /\ LET b == BoundsOut(series, minimum_in, maximum_in)
       IN  IF b.exc # ""
           THEN /\ sp_result' = Raised(b.exc)
                /\ sp_pc' = "done"
                /\ UNCHANGED <<minimum, maximum>>
           ELSE /\ minimum' = b.minimum
                /\ maximum' = b.maximum
                /\ sp_pc' = "line36"
                /\ UNCHANGED sp_result
    /\ UNCHANGED <<series_in, minimum_in, maximum_in, host, series>>
    /\ UNCHANGED <<threadVars, memoVars, echoVars>>

Render ==
    /\ sp_pc = "line36"
    /\ sp_result' = RenderOut(series, minimum, maximum, host)
    /\ sp_pc' = "done"
    /\ UNCHANGED <<series_in, minimum_in, maximum_in, host, series, minimum, maximum>>
    /\ UNCHANGED <<threadVars, memoVars, echoVars>>

\* No call of sparkify.
SparkIdle ==
    /\ series_in = [iterable |-> TRUE, items |-> <<>>]
    /\ minimum_in = None
    /\ maximum_in = None
    /\ host = "py2"
    /\ sp_pc = "idle"
    /\ series = <<>>
    /\ minimum = 0
    /\ maximum = 0
    /\ sp_result = NoResult

\* ---------------------------------------------------------- running_threads
MainThread == 0
Workers == 1..MaxWorkers

\* The orders in which threading.enumerate() may list the threads of S (the
\* values of a dict).
Orders(S) ==
    {f \in [1..Cardinality(S) -> S] : \A i, j \in 1..Cardinality(S) : f[i] = f[j] => i = j}

\* utils.py line 15: the number of the entry appended to the list l while the
\* loop is at position i of the enumeration.
EntryNumberByPosition(l, i) == i
EntryNumber(l, i) == Len(l) + 1

\* Line 15: '#{}: {}: {}'.format(len(threads) + 1, t.getName(), t).
Entry(l, i, t) == [num |-> EntryNumber(l, i), thread |-> t]

\* Thread.start() of a worker that was not started before.
StartThread(t) ==
    /\ t \in Workers \ (alive \cup finished)
    /\ alive' = alive \cup {t}
    /\ UNCHANGED <<finished, rt_pc, main_thread, threads, rt_enum, rt_i, rt_alive>>
    /\ UNCHANGED <<sparkVars, memoVars, echoVars>>

\* A worker's target returns; a thread inside running_threads is still
\* running.
FinishThread(t) ==
    /\ t \in alive \cap Workers
    /\ ~(rt_pc = "loop" /\ t = main_thread)
    /\ alive' = alive \ {t}
    /\ finished' = finished \cup {t}
    /\ UNCHANGED <<rt_pc, main_thread, threads, rt_enum, rt_i, rt_alive>>
    /\ UNCHANGED <<sparkVars, memoVars, echoVars>>

\* Lines 10-12: thread c calls running_threads; threads = [], main_thread =
\* current_thread(), and enumerate() lists the alive threads in some order.
CallRunningThreads(c) ==
    /\ rt_pc = "idle"
    /\ c \in alive
    /\ main_thread' = c
    /\ threads' = <<>>
    /\ rt_enum' \in Orders(alive)
    /\ rt_alive' = alive
    /\ rt_i' = 1
    /\ rt_pc' = "loop"
    /\ UNCHANGED <<alive, finished>>
    /\ UNCHANGED <<sparkVars, memoVars, echoVars>>

\* Lines 12-15: one round of the for loop.
LoopRunningThreads ==
    /\ rt_pc = "loop"
    /\ rt_i <= Len(rt_enum)
    /\ threads' = IF rt_enum[rt_i] = main_thread
                  THEN threads
                  ELSE Append(threads, Entry(threads, rt_i, rt_enum[rt_i]))
    /\ rt_i' = rt_i + 1
    /\ UNCHANGED <<alive, finished, rt_pc, main_thread, rt_enum, rt_alive>>
    /\ UNCHANGED <<sparkVars, memoVars, echoVars>>

\* Line 16: return threads.
ReturnRunningThreads ==
    /\ rt_pc = "loop"
    /\ rt_i > Len(rt_enum)
    /\ rt_pc' = "returned"
    /\ UNCHANGED <<alive, finished, main_thread, threads, rt_enum, rt_i, rt_alive>>
    /\ UNCHANGED <<sparkVars, memoVars, echoVars>>

\* The caller goes on; a next call may follow.
ResumeCaller ==
    /\ rt_pc = "returned"
    /\ rt_pc' = "idle"
    /\ UNCHANGED <<alive, finished, main_thread, threads, rt_enum, rt_i, rt_alive>>
    /\ UNCHANGED <<sparkVars, memoVars, echoVars>>

ThreadsStart ==
    /\ alive = {MainThread}
    /\ finished = {}
    /\ rt_pc = "idle"
    /\ main_thread = MainThread
    /\ threads = <<>>
    /\ rt_enum = <<>>
    /\ rt_i = 1
    /\ rt_alive = {MainThread}

\* ----------------------------------------------------------------- memoized
\* The argument tuples of the calls: MaxArgs tuples of hashable values, and
\* tuple 0, which holds an unhashable value (a list).
HashableArgs == 1..MaxArgs
UnhashableArgs == 0
ArgTuples == HashableArgs \cup {UnhashableArgs}
Values == 1..MaxValues

\* decorators.py line 17: isinstance(args, collections.Hashable).  args is
\* the tuple of the positional arguments, and tuple defines __hash__.
IsHashableInstance(a) == TRUE

\* Line 25: self.cache[args] = value.
StoreNothing(c, a, v) == c
Store(c, a, v) == [x \in DOMAIN c \cup {a} |-> IF x = a THEN v ELSE c[x]]

NoCall == [args |-> 0, hit |-> FALSE, invoked |-> FALSE, outcome |-> "none",
           value |-> 0, before |-> <<>>]

\* Lines 16-26: one call memoized.__call__(*a) in which self.func, if it is
\* invoked, ends as `how` ("return" with value v, or "raise").
CallMemoized(a, how, v) ==
    /\ mem_calls < MaxMemoCalls
    /\ mem_calls' = mem_calls + 1
    /\ IF ~IsHashableInstance(a)
       THEN \* lines 18-20: not cached
            /\ UNCHANGED cache
            /\ mem_evals' = IF how = "return"
                            THEN [mem_evals EXCEPT ![a] = @ + 1] ELSE mem_evals
            /\ mem_first' = IF how = "return" /\ mem_first[a] = 0
                            THEN [mem_first EXCEPT ![a] = v] ELSE mem_first
            /\ mem_last' = [args |-> a, hit |-> FALSE, invoked |-> TRUE, outcome |-> how,
                            value |-> IF how = "return" THEN v ELSE 0, before |-> cache]
       ELSE IF a = UnhashableArgs
       THEN \* line 21: hashing the tuple raises TypeError
            /\ UNCHANGED <<cache, mem_evals, mem_first>>
            /\ mem_last' = [args |-> a, hit |-> FALSE, invoked |-> FALSE, outcome |-> "raise",
                            value |-> 0, before |-> cache]
       ELSE IF a \in DOMAIN cache
       THEN \* line 22
            /\ UNCHANGED <<cache, mem_evals, mem_first>>
            /\ mem_last' = [args |-> a, hit |-> TRUE, invoked |-> FALSE, outcome |-> "return",
                            value |-> cache[a], before |-> cache]
       ELSE IF how = "raise"
       THEN \* line 24 raises
            /\ UNCHANGED <<cache, mem_evals, mem_first>>
            /\ mem_last' = [args |-> a, hit |-> FALSE, invoked |-> TRUE, outcome |-> "raise",
                            value |-> 0, before |-> cache]
       ELSE \* lines 24-26
            /\ cache' = Store(cache, a, v)
            /\ mem_evals' = [mem_evals EXCEPT ![a] = @ + 1]
            /\ mem_first' = IF mem_first[a] = 0
                            THEN [mem_first EXCEPT ![a] = v] ELSE mem_first
            /\ mem_last' = [args |-> a, hit |-> FALSE, invoked |-> TRUE, outcome |-> "return",
                            value |-> v, before |-> cache]
    /\ UNCHANGED <<sparkVars, threadVars, echoVars>>

\* Lines 12-14: __init__.
MemoStart ==
    /\ cache = <<>>
    /\ mem_evals = [a \in ArgTuples |-> 0]
    /\ mem_first = [a \in ArgTuples |-> 0]
    /\ mem_calls = 0
    /\ mem_last = NoCall

\* --------------------------------------------------------------------- echo
Fns == {"f", "g"}

\* decorators.py line 108: echo.depth = 1.
InitialDepth == 1

\* Line 149: echo.depth += 1.
DepthOnEntry(d) == d + 1

\* Line 156: echo.depth -= 1, the wrapped function having returned.
DepthOnReturn(d) == d - 1

\* Line 152: echo.depth -= 1, the wrapped function having raised an
\* Exception.
DepthOnExceptionKept(d) == d
DepthOnException(d) == d - 1

NoExit == [enter |-> 0, exit |-> 0, how |-> "none"]

\* Lines 138-150: a wrapped function fn is called, from the top level or from
\* the wrapped function running innermost: the "Entering" line is written,
\* then the depth raised.
EnterEcho(fn) ==
    /\ Len(stack) < MaxNest
    /\ echo_calls < MaxEchoCalls
    /\ echo_calls' = echo_calls + 1
    /\ stack' = Append(stack, [fn |-> fn, enter |-> depth])
    /\ depth' = DepthOnEntry(depth)
    /\ UNCHANGED <<last_exit, escaped>>
    /\ UNCHANGED <<sparkVars, threadVars, memoVars>>

\* Lines 155-158: the innermost wrapped function returns: the depth is
\* lowered, then the "Exiting" line written.
ReturnEcho ==
    /\ stack # <<>>
    /\ depth' = DepthOnReturn(depth)
    /\ last_exit' = [enter |-> stack[Len(stack)].enter, exit |-> depth', how |-> "return"]
    /\ stack' = SubSeq(stack, 1, Len(stack) - 1)
    /\ UNCHANGED <<escaped, echo_calls>>
    /\ UNCHANGED <<sparkVars, threadVars, memoVars>>

\* Lines 151-154: the innermost wrapped function raises an Exception: the
\* depth is lowered, the "Exiting" line written and the exception raised
\* again, into the caller.
RaiseEcho ==
    /\ stack # <<>>
    /\ depth' = DepthOnException(depth)
    /\ last_exit' = [enter |-> stack[Len(stack)].enter, exit |-> depth', how |-> "exception"]
    /\ stack' = SubSeq(stack, 1, Len(stack) - 1)
    /\ UNCHANGED <<escaped, echo_calls>>
    /\ UNCHANGED <<sparkVars, threadVars, memoVars>>

\* Lines 148-151: the innermost wrapped function raises a BaseException that
\* is no Exception (KeyboardInterrupt, SystemExit, GeneratorExit): neither
\* branch runs.
EscapeEcho ==
    /\ stack # <<>>
    /\ stack' = SubSeq(stack, 1, Len(stack) - 1)
    /\ escaped' = TRUE
    /\ UNCHANGED <<depth, last_exit, echo_calls>>
    /\ UNCHANGED <<sparkVars, threadVars, memoVars>>

\* Lines 107-108.
EchoStart ==
    /\ depth = InitialDepth
    /\ stack = <<>>
    /\ last_exit = NoExit
    /\ escaped = FALSE
    /\ echo_calls = 0

\* ------------------------------------------------------- the specifications
InitSpark ==
    /\ series_in \in SeriesArgs
    /\ minimum_in \in BoundArgs
    /\ maximum_in \in BoundArgs
    /\ host \in Hosts
    /\ sp_pc = "line22"
    /\ series = <<>>
    /\ minimum = 0
    /\ maximum = 0
    /\ sp_result = NoResult
    /\ ThreadsStart
    /\ MemoStart
    /\ EchoStart

NextSpark == Convert \/ Bounds \/ Render

SpecSpark == InitSpark /\ [][NextSpark]_vars

NextThreads ==
    \/ \E t \in Workers : StartThread(t)
    \/ \E t \in Workers : FinishThread(t)
    \/ \E c \in {MainThread} \cup Workers : CallRunningThreads(c)
    \/ LoopRunningThreads
    \/ ReturnRunningThreads
    \/ ResumeCaller

InitThreads == SparkIdle /\ ThreadsStart /\ MemoStart /\ EchoStart

SpecThreads == InitThreads /\ [][NextThreads]_vars

NextMemo ==
    \E a \in ArgTuples, how \in {"return", "raise"}, v \in Values : CallMemoized(a, how, v)

InitMemo == SparkIdle /\ ThreadsStart /\ MemoStart /\ EchoStart

SpecMemo == InitMemo /\ [][NextMemo]_vars

NextEcho ==
    \/ \E fn \in Fns : EnterEcho(fn)
    \/ ReturnEcho
    \/ RaiseEcho
    \/ EscapeEcho

InitEcho == SparkIdle /\ ThreadsStart /\ MemoStart /\ EchoStart

SpecEcho == InitEcho /\ [][NextEcho]_vars

\* ------------------------------------------------------ sparkify: the claims
SparkDone == sp_pc = "done"

\* The call was given a list of numbers, at least one.
NonEmptyNumeric ==
    /\ series_in.iterable
    /\ series_in.items # <<>>
    /\ \A i \in 1..Len(series_in.items) : CanFloat(series_in.items[i])

NoExplicitBounds == minimum_in = None /\ maximum_in = None

\* Twice the distance from sample i's scaled value 7 * (x - minimum) / range
\* to the integer g, in units of 1 / range.
TwiceDistance(i, g) ==
    2 * (7 * (series[i] - minimum) - g * (maximum - minimum))

\* Sample i's scaled value is exactly k + 1/2.
TieAt(i, k) ==
    2 * 7 * (series[i] - minimum) = (2 * k + 1) * (maximum - minimum)

\* C1: sparkify of an empty series completes and returns the empty string.
C1_EmptyReturnsEmpty ==
    (SparkDone /\ series_in.iterable /\ series_in.items = <<>>)
        => sp_result = Returned(<<>>)

\* C2: explicit bounds only widen the range.  An explicit minimum above the
\* series minimum gives the result of the call without it, an explicit
\* maximum below the series maximum likewise, and the effective minimum and
\* maximum enclose every sample.
C2_BoundsOnlyWiden ==
    /\ (SparkDone /\ NonEmptyNumeric /\ minimum_in # None
            /\ minimum_in.val > SeqMin(series))
        => sp_result = sparkify(series_in, None, maximum_in, host)
    /\ (SparkDone /\ NonEmptyNumeric /\ maximum_in # None
            /\ maximum_in.val < SeqMax(series))
        => sp_result = sparkify(series_in, minimum_in, None, host)
    /\ (sp_pc \in {"line36", "done"} /\ NonEmptyNumeric)
        => \A x \in Range(series) : minimum <= x /\ x <= maximum

\* A finished call on a series with negative and larger samples, given only
\* an explicit minimum of 0, above the series minimum.
C2_Witness ==
    /\ SparkDone /\ NonEmptyNumeric
    /\ minimum_in = Num(0) /\ maximum_in = None
    /\ SeqMin(series) < 0 /\ SeqMax(series) > SeqMin(series)
    /\ sp_result.status = "ok"

\* C3: an element that cannot be converted to float makes sparkify raise
\* ValueError (not the TypeError of a non-iterable series), with no output.
C3_BadElementRaisesValueError ==
    (SparkDone /\ series_in.iterable
        /\ \E i \in 1..Len(series_in.items) : ~CanFloat(series_in.items[i]))
        => sp_result = Raised("ValueError")

\* C4 as stated: with a non-zero range each glyph index is the integer
\* nearest to the scaled value, and a scaled value of exactly k + 1/2 goes to
\* the even one of k and k + 1.
C4_HalfToEven ==
    (SparkDone /\ NonEmptyNumeric /\ maximum # minimum)
        => /\ sp_result.status = "ok"
           /\ \A i \in 1..Len(series) :
                LET g == HeightOf(sp_result.out[i])
                IN  /\ TwiceDistance(i, g) <= maximum - minimum
                    /\ -TwiceDistance(i, g) <= maximum - minimum
                    /\ \A k \in 0..6 :
                         TieAt(i, k) => g = IF k % 2 = 0 THEN k ELSE k + 1

\* C4 as amended: with a non-zero range each glyph index is the integer
\* nearest to the scaled value; a scaled value of exactly k + 1/2 goes to the
\* even one of k and k + 1 under Python 3 and to k + 1 under Python 2, whose
\* built-in round takes ties away from zero.
C4_HostRounding ==
    (SparkDone /\ NonEmptyNumeric /\ maximum # minimum)
        => /\ sp_result.status = "ok"
           /\ \A i \in 1..Len(series) :
                LET g == HeightOf(sp_result.out[i])
                IN  /\ TwiceDistance(i, g) <= maximum - minimum
                    /\ -TwiceDistance(i, g) <= maximum - minimum
                    /\ \A k \in 0..6 :
                         TieAt(i, k) =>
                            g = IF host = "py3"
                                THEN (IF k % 2 = 0 THEN k ELSE k + 1)
                                ELSE k + 1

\* A finished call under Python 2 in which a sample's scaled value is 2 + 1/2
\* and its glyph index 3.
C4_Witness ==
    /\ SparkDone /\ NonEmptyNumeric /\ maximum # minimum
    /\ host = "py2"
    /\ sp_result.status = "ok"
    /\ \E i \in 1..Len(series) : TieAt(i, 2) /\ HeightOf(sp_result.out[i]) = 3

C6_FlatIsBaseline ==
    (SparkDone /\ NonEmptyNumeric /\ NoExplicitBounds
        /\ \A i, j \in 1..Len(series) : series[i] = series[j])
        => sp_result = Returned([i \in 1..Len(series_in.items) |-> spark_chars[1]])

\* A finished call on two or more equal negative samples.
C6_Witness ==
    /\ SparkDone /\ NonEmptyNumeric /\ NoExplicitBounds
    /\ Len(series) >= 2
    /\ \A i \in 1..Len(series) : series[i] = series[1] /\ series[i] < 0
    /\ sp_result.status = "ok"

\* C7: within one call a larger sample never gets a shorter glyph, equal
\* samples get the same glyph, and without explicit bounds and with a
\* non-zero range the series minimum gets index 0 and the maximum index 7.
C7_Monotone ==
    (SparkDone /\ NonEmptyNumeric)
        => /\ sp_result.status = "ok"
           /\ \A i, j \in 1..Len(series) :
                /\ series[i] <= series[j]
                     => HeightOf(sp_result.out[i]) <= HeightOf(sp_result.out[j])
                /\ series[i] = series[j] => sp_result.out[i] = sp_result.out[j]
           /\ (NoExplicitBounds /\ maximum # minimum)
                => \A i \in 1..Len(series) :
                     /\ series[i] = SeqMin(series) => HeightOf(sp_result.out[i]) = 0
                     /\ series[i] = SeqMax(series) => HeightOf(sp_result.out[i]) = 7

\* A finished call without explicit bounds on three samples of three
\* different heights, the lowest at index 0 and the highest at index 7.
C7_Witness ==
    /\ SparkDone /\ NonEmptyNumeric /\ NoExplicitBounds
    /\ sp_result.status = "ok"
    /\ \E i, j, k \in 1..Len(series) :
         /\ series[i] < series[k] /\ series[k] < series[j]
         /\ HeightOf(sp_result.out[i]) = 0
         /\ HeightOf(sp_result.out[j]) = 7
         /\ HeightOf(sp_result.out[k]) \in 1..6

\* ----------------------------------------------- running_threads: the claim
\* C8: running_threads returns one entry per thread alive when it enumerates
\* them, the calling thread left out, numbered from 1 without gaps; it is the
\* empty list when only the caller is alive, and the list of the threads
\* alive now when none has started or ended since.
C8_OneEntryPerOtherThread ==
    rt_pc = "returned"
        => /\ Len(threads) = Cardinality(rt_alive \ {main_thread})
           /\ {threads[k].thread : k \in 1..Len(threads)} = rt_alive \ {main_thread}
           /\ \A k \in 1..Len(threads) : threads[k].num = k
           /\ rt_alive = {main_thread} => threads = <<>>
           /\ alive = rt_alive =>
                {threads[k].thread : k \in 1..Len(threads)} = alive \ {main_thread}

\* A call has returned two entries or more, after a worker has ended, and
\* the caller was the first thread enumerated.
C8_Witness ==
    /\ rt_pc = "returned"
    /\ finished # {}
    /\ Len(threads) >= 2
    /\ rt_enum[1] = main_thread
    /\ alive = rt_alive

C10_DepthBalanced ==
    /\ depth >= 1
    /\ ~escaped =>
         /\ depth = 1 + Len(stack)
         /\ \A i \in 1..Len(stack) : stack[i].enter = i
         /\ last_exit # NoExit => last_exit.exit = last_exit.enter

\* A nested call of f inside f has ended by raising an Exception, the outer
\* call still running.
C10_Witness ==
    /\ ~escaped
    /\ Len(stack) = 1
    /\ stack[1].fn = "f"
    /\ last_exit.how = "exception"
    /\ last_exit.enter = 2
    /\ echo_calls >= 3
====
